---- MODULE Spec2Model ----
(***************************************************************************)
(* Model of src/main.py: the ESix session singleton, its rate limiter      *)
(* (api_limiter), the request operations (post, search, pool, pool_search, *)
(* wiki) and the pool reconciliation (get_pool_images).                    *)
(*                                                                         *)
(* Time is counted in ticks of 0.5 s, so the limiter's 0.5 s interval is   *)
(* one tick.  The clock never runs backwards.  Python object identity is   *)
(* an index into heap; 0 stands for None.                                  *)
(***************************************************************************)
EXTENDS Integers, Sequences, FiniteSets, TLC

\* ---------------------------------------------------------------- bounds
NumThreads == 2          \* threads of control using the library
MaxTime == 4             \* the clock stops advancing here
MaxPosts == 3            \* most posts accumulated by one search
MaxPoolPosts == 2        \* most posts accumulated by the search of a pool
MaxPagePosts == 2        \* most posts in one page body
MaxPoolIds == 2          \* longest pool.post_ids
MaxId == 2               \* post ids are 1..MaxId
MaxRequests == 2         \* a caller starts no further call after this many requests

\* ------------------------------------------------------ program constants
MinInterval == 1         \* timedelta(0, 0.5), in ticks of 0.5 s
PageSize == 320          \* limit -= 320
DefaultScore == -10      \* search(..., score=-10)
PoolLimit == 1280        \* get_pool_images: limit=1280
PoolScore == -5000       \* get_pool_images: score=-5000
StatusOK == 200          \* r.status != 200

Threads == 1..NumThreads
None == 0

VARIABLES
    now,            \* the clock, datetime.now()
    cls_instance,   \* ESix._instance: None or a heap index
    heap,           \* the ESix objects ever allocated by super().__new__
    lock,           \* ESix._lock: None or the thread holding it
    pc,             \* per thread: where it is
    e621,           \* per thread: the local e621 of __new__
    self,           \* per thread: the session its constructor call returned
    op,             \* per thread: the public operation it is running
    ret,            \* per thread: where api_limiter returns to
    limit,          \* per thread: search's local limit
    page,           \* per thread: search's local page
    args,           \* per thread: the call's arguments as passed
    posts,          \* per thread: search's accumulator, the list posts
    search_list,    \* per thread: search_list.posts, filtered and returned
    pool,           \* per thread: the Pool record of pool / get_pool_images
    result,         \* per thread: what the operation returned or raised
    gate,           \* per thread: api_limiter calls since its last request
    ticket,         \* per thread: its place in the order the lock was acquired
    tickets,        \* number of lock acquisitions so far
    stamps,         \* history: the writes of last_search, in order
    requests,       \* history: the outbound requests, in order
    catalogue,      \* the posts the remote service may return (fixed per run)
    creds           \* per thread: the (username, api_key) it passes to ESix

vars == <<now, cls_instance, heap, lock, pc, e621, self, op, ret, limit, page,
          args, posts, search_list, pool, result, gate, ticket, tickets,
          stamps, requests, catalogue, creds>>

\* ------------------------------------------------------------------ data
\* Tags (src/main.py:89-97): the eight tag categories of a post.
MkTags(general, meta) ==
    [general |-> general, species |-> <<>>, character |-> <<>>,
     copyright |-> <<>>, artist |-> <<>>, invalid |-> <<>>, lore |-> <<>>,
     meta |-> meta]

\* Tags.all: chain(general, species, character, copyright, artist, invalid,
\* lore, meta).
TagsAll(tags) ==
    tags.general \o tags.species \o tags.character \o tags.copyright \o
    tags.artist \o tags.invalid \o tags.lore \o tags.meta

\* Post, cut down to the fields the operations read: id, tags, score.total,
\* flags.deleted.  Two posts are equal when all their fields are (dataclass eq).
MkPost(id, tags, total, deleted) ==
    [id |-> id, tags |-> tags, total |-> total, deleted |-> deleted]

Range(s) == {s[i] : i \in DOMAIN s}

\* Sequences over S of length at most n.
SeqUpTo(S, n) == UNION {[1..k -> S] : k \in 0..n}

\* list.remove(x): drops the first element equal to x.  The caller checks
\* x \in Range(s); Python raises ValueError otherwise.
ListRemove(s, x) ==
    LET i == CHOOSE k \in DOMAIN s : s[k] = x /\ \A j \in 1..(k - 1) : s[j] # x
    IN  [j \in 1..(Len(s) - 1) |-> IF j < i THEN s[j] ELSE s[j + 1]]

\* any(item in blacklist for item in post.tags.all)
Blacklisted(post, blacklist) ==
    \E i \in DOMAIN TagsAll(post.tags) : TagsAll(post.tags)[i] \in blacklist

\* Mutant of ScoreDrops: a post scoring exactly the threshold is kept.
ScoreDropsBelow(post, score) == post.total < score

\* post.score.total <= score
ScoreDrops(post, score) == post.total <= score

\* One pass of the loop body of search's filter (lines 277-280) for the post
\* `post` of the snapshot, on the live list `cur`.  raised is TRUE when a
\* list.remove raised ValueError.
FilterStep(cur, post, blacklist, score) ==
    LET r1 == IF Blacklisted(post, blacklist)
              THEN IF post \in Range(cur)
                   THEN [raised |-> FALSE, posts |-> ListRemove(cur, post)]
                   ELSE [raised |-> TRUE, posts |-> cur]
              ELSE [raised |-> FALSE, posts |-> cur]
    IN  IF r1.raised THEN r1
        ELSE IF ScoreDrops(post, score)
             THEN IF post \in Range(r1.posts)
                  THEN [raised |-> FALSE, posts |-> ListRemove(r1.posts, post)]
                  ELSE [raised |-> TRUE, posts |-> r1.posts]
             ELSE r1

\* for post in list(search_list.posts): ...   (snapshot is the copy iterated,
\* cur the list being mutated), from position i of the snapshot on.
RECURSIVE FilterFrom(_, _, _, _, _)
FilterFrom(snapshot, i, cur, blacklist, score) ==
    IF i > Len(snapshot) THEN [raised |-> FALSE, posts |-> cur]
    ELSE LET r == FilterStep(cur, snapshot[i], blacklist, score)
         IN  IF r.raised THEN r
             ELSE FilterFrom(snapshot, i + 1, r.posts, blacklist, score)

FilterPass(accumulated, blacklist, score) ==
    FilterFrom(accumulated, 1, accumulated, blacklist, score)

\* The inner loop of get_pool_images (lines 287-291) for one entry of
\* pool.post_ids, from position j of r.posts on: every non-deleted post with
\* that id is appended to out.
RECURSIVE InnerScan(_, _, _, _)
InnerScan(id, rposts, j, out) ==
    IF j > Len(rposts) THEN out
    ELSE IF rposts[j].deleted THEN InnerScan(id, rposts, j + 1, out)
    ELSE IF rposts[j].id = id
         THEN InnerScan(id, rposts, j + 1, Append(out, rposts[j]))
         ELSE InnerScan(id, rposts, j + 1, out)

\* The outer loop of get_pool_images (lines 285-291), from entry i of post_ids.
RECURSIVE OuterScan(_, _, _, _)
OuterScan(post_ids, rposts, i, out) ==
    IF i > Len(post_ids) THEN out
    ELSE OuterScan(post_ids, rposts, i + 1,
                   InnerScan(post_ids[i], rposts, 1, out))

\* Mutant of ReconcilePosts: the matching posts in search arrival order.
ReconcileArrivalOrder(post_ids, rposts) ==
    LET Keep(p) == ~p.deleted /\ p.id \in Range(post_ids)
    IN  SelectSeq(rposts, Keep)

\* lines 285-292 as a whole
ReconcilePosts(post_ids, rposts) == OuterScan(post_ids, rposts, 1, <<>>)

\* ------------------------------------------------------- records and sets
\* The credentials a caller may pass to ESix(username, api_key).
Credentials ==
    {[username |-> "fox", api_key |-> "k1"], [username |-> "wolf", api_key |-> "k2"]}

\* make_headers(user_agent=f'e621/2.1/{username} ...',
\*              basic_auth=f'{username}:{api_key}')
MakeHeaders(username, api_key) ==
    [user_agent |-> username, basic_auth |-> <<username, api_key>>]

NoHeader == [user_agent |-> "", basic_auth |-> <<>>]

\* An ESix object on the heap: username, api_key, header and pool_manager are
\* set by __init lines 239-244, last_search by line 245; before that the
\* attributes do not exist.
NewObject ==
    [username |-> "", api_key |-> "", header |-> NoHeader,
     pool_manager |-> FALSE, has_last_search |-> FALSE, last_search |-> 0]

\* The object once __init(username, api_key) has run through line 244.
InitFields(obj, c) ==
    [obj EXCEPT !.username = c.username,
                !.api_key = c.api_key,
                !.header = MakeHeaders(c.username, c.api_key),
                !.pool_manager = TRUE]

NoResult == [kind |-> "none", exc |-> "", reason |-> "", value |-> <<>>]
Return(v) == [kind |-> "return", exc |-> "", reason |-> "", value |-> v]
Raise(e, why) == [kind |-> "raise", exc |-> e, reason |-> why, value |-> <<>>]

NoPool == [id |-> 0, post_ids |-> <<>>, posts |-> <<>>]
\* wiki's query is a str or an int (line 311).
StrQuery(s) == [kind |-> "str", s |-> s, n |-> 0]
IntQuery(n) == [kind |-> "int", s |-> "", n |-> n]

NoQuery == StrQuery("")

\* The queries the callers pass to wiki.
Queries == {StrQuery(""), StrQuery("fox"), IntQuery(0), IntQuery(7)}

NoArgs == [limit |-> 0, page |-> 0, blacklist |-> {}, score |-> 0, query |-> NoQuery]

SearchArgs(l, p, bl, sc) ==
    [limit |-> l, page |-> p, blacklist |-> bl, score |-> sc, query |-> NoQuery]

\* The statuses the service answers with: success, and 404 for the others.
Statuses == {StatusOK, 404}

\* Mutant of Failed: only server errors count as failures.
FailedServerErrorsOnly(st) == st >= 500

\* if r.status != 200: raise E621Error(...)
Failed(st) == st # StatusOK

\* The page bodies the service may answer thread t's next page request with.
PostCap(t) == IF op[t] = "search" THEN MaxPosts ELSE MaxPoolPosts

PageBodies(t) ==
    {b \in SeqUpTo(catalogue, MaxPagePosts) : Len(posts[t]) + Len(b) <= PostCap(t)}

\* The post_ids the service may report for a pool.
PoolIdLists == SeqUpTo({p.id : p \in catalogue}, MaxPoolIds)

\* One entry of the request history: who issued it and when, how many
\* api_limiter calls that thread completed since its previous request, the
\* limit and page query parameters, and the status of the response.
Request(t, kind, l, p, st) ==
    [t |-> t, at |-> now, gate |-> gate[t], op |-> kind, limit |-> l,
     page |-> p, status |-> st]

\* ------------------------------------------------------------- the clock
Tick ==
    /\ now < MaxTime
    /\ now' = now + 1
    /\ UNCHANGED <<cls_instance, heap, lock, pc, e621, self, op, ret, limit,
                   page, args, posts, search_list, pool, result, gate, ticket, tickets,
                   stamps, requests, catalogue, creds>>

\* ------------------------------------------------------------ ESix.__new__
\* Mutant of NoInstance: every constructor call finds no instance.
NoInstanceEver(inst) == TRUE

\* (e621 := cls._instance) is None
NoInstance(inst) == inst = None

\* if (e621 := cls._instance) is None:
NewRead(t) ==
    /\ pc[t] = "start"
    /\ e621' = [e621 EXCEPT ![t] = cls_instance]
    /\ pc' = [pc EXCEPT ![t] = IF NoInstance(cls_instance) THEN "new_alloc" ELSE "new_ret"]
    /\ UNCHANGED <<now, cls_instance, heap, lock, self, op, ret, limit, page,
                   args, posts, search_list, pool, result, gate, ticket, tickets, stamps,
                   requests, catalogue, creds>>

\* e621 = cls._instance = super().__new__(cls)
NewAlloc(t) ==
    /\ pc[t] = "new_alloc"
    /\ heap' = Append(heap, NewObject)
    /\ cls_instance' = Len(heap) + 1
    /\ e621' = [e621 EXCEPT ![t] = Len(heap) + 1]
    /\ pc' = [pc EXCEPT ![t] = "new_init"]
    /\ UNCHANGED <<now, lock, self, op, ret, limit, page, args, posts, search_list, pool,
                   result, gate, ticket, tickets, stamps, requests, catalogue, creds>>

\* __init, lines 239-244: username, api_key, header, pool_manager
NewInitFields(t) ==
    /\ pc[t] = "new_init"
    /\ heap' = [heap EXCEPT ![e621[t]] = InitFields(heap[e621[t]], creds[t])]
    /\ pc' = [pc EXCEPT ![t] = "new_init_stamp"]
    /\ UNCHANGED <<now, cls_instance, lock, e621, self, op, ret, limit, page,
                   args, posts, search_list, pool, result, gate, ticket, tickets, stamps,
                   requests, catalogue, creds>>

\* __init, line 245: self.last_search = datetime.fromtimestamp(0)
NewInitStamp(t) ==
    /\ pc[t] = "new_init_stamp"
    /\ heap' = [heap EXCEPT ![e621[t]].has_last_search = TRUE,
                            ![e621[t]].last_search = 0]
    /\ pc' = [pc EXCEPT ![t] = "new_ret"]
    /\ UNCHANGED <<now, cls_instance, lock, e621, self, op, ret, limit, page,
                   args, posts, search_list, pool, result, gate, ticket, tickets, stamps,
                   requests, catalogue, creds>>

\* return e621
NewReturn(t) ==
    /\ pc[t] = "new_ret"
    /\ self' = [self EXCEPT ![t] = e621[t]]
    /\ pc' = [pc EXCEPT ![t] = "ready"]
    /\ UNCHANGED <<now, cls_instance, heap, lock, e621, op, ret, limit, page,
                   args, posts, search_list, pool, result, gate, ticket, tickets, stamps,
                   requests, catalogue, creds>>

\* ------------------------------------------------------- ESix.api_limiter
\* Mutant of LockFree: the lock is granted whoever holds it.
LockFreeAlways(l) == TRUE

\* _lock.acquire() goes through when no other thread holds the lock.
LockFree(l) == l = None

\* with self._lock:   (the lock is a class attribute, shared by every object)
LimLock(t) ==
    /\ pc[t] = "lim_lock"
    /\ LockFree(lock)
    /\ lock' = t
    /\ tickets' = tickets + 1
    /\ ticket' = [ticket EXCEPT ![t] = tickets + 1]
    /\ pc' = [pc EXCEPT ![t] = "lim_check"]
    /\ UNCHANGED <<now, cls_instance, heap, e621, self, op, ret, limit, page,
                   args, posts, search_list, pool, result, gate, stamps, requests, catalogue, creds>>

\* The wait loop goes on while last_search + 0.5 s lies after now.
MustWait(last, clock) == last + MinInterval > clock

\* while self.last_search + timedelta(0, 0.5) > datetime.now(...):
\* reading last_search of an object whose __init has not reached line 245
\* raises AttributeError, which leaves the with block and releases the lock.
LimCheck(t) ==
    /\ pc[t] = "lim_check"
    /\ IF ~heap[self[t]].has_last_search
       THEN /\ lock' = None
            /\ result' = [result EXCEPT ![t] = Raise("AttributeError", "last_search")]
            /\ pc' = [pc EXCEPT ![t] = "done"]
       ELSE /\ pc' = [pc EXCEPT ![t] =
                        IF MustWait(heap[self[t]].last_search, now)
                        THEN "lim_sleep" ELSE "lim_stamp"]
            /\ UNCHANGED <<lock, result>>
    /\ UNCHANGED <<now, cls_instance, heap, e621, self, op, ret, limit, page,
                   args, posts, search_list, pool, gate, ticket, tickets, stamps, requests,
                   catalogue, creds>>

\* time.sleep(0.01)
LimSleep(t) ==
    /\ pc[t] = "lim_sleep"
    /\ pc' = [pc EXCEPT ![t] = "lim_check"]
    /\ UNCHANGED <<now, cls_instance, heap, lock, e621, self, op, ret, limit,
                   page, args, posts, search_list, pool, result, gate, ticket, tickets,
                   stamps, requests, catalogue, creds>>

\* self.last_search = datetime.now(), then the with block releases the lock
LimStamp(t) ==
    /\ pc[t] = "lim_stamp"
    /\ heap' = [heap EXCEPT ![self[t]].last_search = now]
    /\ stamps' = Append(stamps, [t |-> t, obj |-> self[t], at |-> now,
                                 ticket |-> ticket[t]])
    /\ lock' = None
    /\ gate' = [gate EXCEPT ![t] = gate[t] + 1]
    /\ pc' = [pc EXCEPT ![t] = ret[t]]
    /\ UNCHANGED <<now, cls_instance, e621, self, op, ret, limit, page, args,
                   posts, search_list, pool, result, ticket, tickets, requests, catalogue, creds>>

\* ---------------------------------------------------- calls by the threads
\* The limits the callers pass to search (160 is the default; blacklist
\* None becomes the empty list).
CallLimits == {-1, 0, 160, 500}

\* e621.post(post_id): api_limiter() first (line 254)
CallPost(t) ==
    /\ pc[t] = "ready"
    /\ op' = [op EXCEPT ![t] = "post"]
    /\ ret' = [ret EXCEPT ![t] = "post_req"]
    /\ pc' = [pc EXCEPT ![t] = "lim_lock"]
    /\ UNCHANGED <<now, cls_instance, heap, lock, e621, self, limit, page,
                   args, posts, search_list, pool, result, gate, ticket, tickets, stamps,
                   requests, catalogue, creds>>

\* e621.search(tags, limit): lines 262-265
CallSearch(t) ==
    /\ pc[t] = "ready"
    /\ \E l \in CallLimits :
          /\ args' = [args EXCEPT ![t] = SearchArgs(l, 1, {}, DefaultScore)]
          /\ limit' = [limit EXCEPT ![t] = l]
    /\ page' = [page EXCEPT ![t] = 1]
    /\ posts' = [posts EXCEPT ![t] = <<>>]
    /\ op' = [op EXCEPT ![t] = "search"]
    /\ pc' = [pc EXCEPT ![t] = "search_loop"]
    /\ UNCHANGED <<now, cls_instance, heap, lock, e621, self, ret,
                   search_list, pool, result, gate, ticket, tickets, stamps,
                   requests, catalogue, creds>>

\* e621.pool(pool_id): goes straight to the request (lines 295-296)
CallPool(t) ==
    /\ pc[t] = "ready"
    /\ op' = [op EXCEPT ![t] = "pool"]
    /\ pc' = [pc EXCEPT ![t] = "pool_req"]
    /\ UNCHANGED <<now, cls_instance, heap, lock, e621, self, ret, limit, page,
                   args, posts, search_list, pool, result, gate, ticket, tickets, stamps,
                   requests, catalogue, creds>>

\* e621.pool_search(query): api_limiter() first (line 304)
CallPoolSearch(t) ==
    /\ pc[t] = "ready"
    /\ op' = [op EXCEPT ![t] = "pool_search"]
    /\ ret' = [ret EXCEPT ![t] = "pool_search_req"]
    /\ pc' = [pc EXCEPT ![t] = "lim_lock"]
    /\ UNCHANGED <<now, cls_instance, heap, lock, e621, self, limit, page,
                   args, posts, search_list, pool, result, gate, ticket, tickets, stamps,
                   requests, catalogue, creds>>

\* Mutant of WikiEntry: wiki tests its query before anything else.
WikiEntryAtCheck == "wiki_check"

\* wiki's first statement is self.api_limiter() (line 312)
WikiEntry == "lim_lock"

\* e621.wiki(query): api_limiter() first, the query test after it
CallWiki(t) ==
    /\ pc[t] = "ready"
    /\ \E q \in Queries : args' = [args EXCEPT ![t].query = q]
    /\ op' = [op EXCEPT ![t] = "wiki"]
    /\ ret' = [ret EXCEPT ![t] = "wiki_check"]
    /\ pc' = [pc EXCEPT ![t] = WikiEntry]
    /\ UNCHANGED <<now, cls_instance, heap, lock, e621, self, limit, page,
                   posts, search_list, pool, result, gate, ticket, tickets, stamps,
                   requests, catalogue, creds>>

\* ---------------------------------------------------------------- post
\* r = self.pool_manager.request(...); if r.status != 200: raise E621Error
PostRequest(t) ==
    /\ pc[t] = "post_req"
    /\ \E st \in Statuses :
          /\ requests' = Append(requests, Request(t, "post", 0, 0, st))
          /\ result' = [result EXCEPT ![t] =
                          IF Failed(st) THEN Raise("E621Error", "not found")
                          ELSE Return(<<>>)]
    /\ gate' = [gate EXCEPT ![t] = 0]
    /\ pc' = [pc EXCEPT ![t] = "done"]
    /\ UNCHANGED <<now, cls_instance, heap, lock, e621, self, op, ret, limit,
                   page, args, posts, search_list, pool, ticket, tickets, stamps, catalogue, creds>>

\* --------------------------------------------------------------- search
\* Mutant of LoopGoesOn: the loop is entered with a limit of 0 too.
LoopGoesOnAtZero(l) == l >= 0

\* while limit > 0:
LoopGoesOn(l) == l > 0

\* while limit > 0: self.api_limiter()
SearchLoop(t) ==
    /\ pc[t] = "search_loop"
    /\ IF LoopGoesOn(limit[t])
       THEN /\ ret' = [ret EXCEPT ![t] = "search_req"]
            /\ pc' = [pc EXCEPT ![t] = "lim_lock"]
       ELSE /\ pc' = [pc EXCEPT ![t] = "search_filter"]
            /\ UNCHANGED ret
    /\ UNCHANGED <<now, cls_instance, heap, lock, e621, self, op, limit, page,
                   args, posts, search_list, pool, result, gate, ticket, tickets, stamps,
                   requests, catalogue, creds>>

\* Mutant of LimitParam: every page asks for the limit the caller passed.
LimitParamPassed(local, passed) == passed

\* params = {..., "limit": limit, "page": page}: the limit query parameter of
\* a page request, from the local limit and the limit the caller passed.
LimitParam(local, passed) == local

\* Mutant of NextLimit: the budget goes down by two pages at a time.
NextLimitTwoPages(l) == l - 2 * PageSize

\* limit -= 320
NextLimit(l) == l - PageSize

\* Mutant of PageFailure: the failed page is skipped and the loop goes on.
PageFailureSkipped(t) ==
    /\ limit' = [limit EXCEPT ![t] = limit[t] - PageSize]
    /\ page' = [page EXCEPT ![t] = page[t] + 1]
    /\ pc' = [pc EXCEPT ![t] = "search_loop"]
    /\ UNCHANGED <<posts, result>>

\* What a non-success page response does to the call: the error is raised.
PageFailure(t) ==
    /\ result' = [result EXCEPT ![t] = Raise("E621Error", "not found")]
    /\ pc' = [pc EXCEPT ![t] = "done"]
    /\ UNCHANGED <<posts, limit, page>>

\* lines 268-274: one page request and what follows its response
SearchRequest(t) ==
    /\ pc[t] = "search_req"
    /\ gate' = [gate EXCEPT ![t] = 0]
    /\ \E st \in Statuses, body \in PageBodies(t) :
          /\ requests' = Append(requests,
                Request(t, "search", LimitParam(limit[t], args[t].limit),
                        page[t], st))
          /\ IF Failed(st)
             THEN PageFailure(t)
             ELSE /\ posts' = [posts EXCEPT ![t] = posts[t] \o body]
                  /\ limit' = [limit EXCEPT ![t] = NextLimit(limit[t])]
                  /\ page' = [page EXCEPT ![t] = page[t] + 1]
                  /\ pc' = [pc EXCEPT ![t] = "search_loop"]
                  /\ UNCHANGED result
    /\ UNCHANGED <<now, cls_instance, heap, lock, e621, self, op, ret, args,
                   search_list, pool, ticket, tickets, stamps, catalogue, creds>>

\* lines 275-281: search_list is built from the accumulated posts, filtered
\* in place and returned; a ValueError of list.remove leaves search (and
\* get_pool_images and pool above it).
SearchFilter(t) ==
    /\ pc[t] = "search_filter"
    /\ LET r == FilterPass(posts[t], args[t].blacklist, args[t].score)
       IN  IF r.raised
           THEN /\ result' = [result EXCEPT ![t] = Raise("ValueError", "list.remove")]
                /\ pc' = [pc EXCEPT ![t] = "done"]
                /\ UNCHANGED search_list
           ELSE /\ search_list' = [search_list EXCEPT ![t] = r.posts]
                /\ IF op[t] = "search"
                   THEN /\ result' = [result EXCEPT ![t] = Return(r.posts)]
                        /\ pc' = [pc EXCEPT ![t] = "done"]
                   ELSE /\ pc' = [pc EXCEPT ![t] = "pool_scan"]
                        /\ UNCHANGED result
    /\ UNCHANGED <<now, cls_instance, heap, lock, e621, self, op, ret, limit,
                   page, args, posts, pool, gate, ticket, tickets, stamps,
                   requests, catalogue, creds>>

\* ------------------------------------------------- pool, get_pool_images
\* get_pool_images line 284: self.search([f'pool:{pool.id}'], limit=1280,
\* score=-5000), entered with page 1 and no blacklist.
PoolSearchArgs == SearchArgs(PoolLimit, 1, {}, PoolScore)

\* pool(), lines 295-300: the metadata request is made without api_limiter;
\* on success get_pool_images starts its search.
PoolRequest(t) ==
    /\ pc[t] = "pool_req"
    /\ IF ~heap[self[t]].pool_manager
       THEN /\ result' = [result EXCEPT ![t] = Raise("AttributeError", "pool_manager")]
            /\ pc' = [pc EXCEPT ![t] = "done"]
            /\ UNCHANGED <<requests, gate, pool, args, limit, page, posts>>
       ELSE /\ gate' = [gate EXCEPT ![t] = 0]
            /\ \E st \in Statuses, ids \in PoolIdLists :
                  /\ requests' = Append(requests, Request(t, "pool", 0, 0, st))
                  /\ IF Failed(st)
                     THEN /\ result' = [result EXCEPT ![t] =
                                          Raise("E621Error", "not found")]
                          /\ pc' = [pc EXCEPT ![t] = "done"]
                          /\ UNCHANGED <<pool, args, limit, page, posts>>
                     ELSE /\ pool' = [pool EXCEPT ![t] =
                                        [id |-> 1, post_ids |-> ids, posts |-> <<>>]]
                          /\ args' = [args EXCEPT ![t] = PoolSearchArgs]
                          /\ limit' = [limit EXCEPT ![t] = PoolLimit]
                          /\ page' = [page EXCEPT ![t] = 1]
                          /\ posts' = [posts EXCEPT ![t] = <<>>]
                          /\ pc' = [pc EXCEPT ![t] = "search_loop"]
                          /\ UNCHANGED result
    /\ UNCHANGED <<now, cls_instance, heap, lock, e621, self, op, ret,
                   search_list, ticket, tickets, stamps, catalogue, creds>>

\* get_pool_images lines 285-292, and for pool() lines 300-301:
\* pool.posts = self.get_pool_images(pool).posts; return pool
PoolScan(t) ==
    /\ pc[t] = "pool_scan"
    /\ LET out == ReconcilePosts(pool[t].post_ids, search_list[t])
       IN  /\ result' = [result EXCEPT ![t] = Return(out)]
           /\ pool' = [pool EXCEPT ![t].posts =
                         IF op[t] = "pool" THEN out ELSE pool[t].posts]
    /\ pc' = [pc EXCEPT ![t] = "done"]
    /\ UNCHANGED <<now, cls_instance, heap, lock, e621, self, op, ret, limit,
                   page, args, posts, search_list, gate, ticket, tickets, stamps, requests,
                   catalogue, creds>>

\* ----------------------------------------------------------- pool_search
PoolSearchRequest(t) ==
    /\ pc[t] = "pool_search_req"
    /\ \E st \in Statuses :
          /\ requests' = Append(requests, Request(t, "pool_search", 0, 0, st))
          /\ result' = [result EXCEPT ![t] =
                          IF Failed(st) THEN Raise("E621Error", "not found")
                          ELSE Return(<<>>)]
    /\ gate' = [gate EXCEPT ![t] = 0]
    /\ pc' = [pc EXCEPT ![t] = "done"]
    /\ UNCHANGED <<now, cls_instance, heap, lock, e621, self, op, ret, limit,
                   page, args, posts, search_list, pool, ticket, tickets, stamps, catalogue, creds>>

\* ------------------------------------------------------------------ wiki
\* Mutant of NotQuery: only the empty string counts as no query.
NotQueryEmptyString(q) == q.kind = "str" /\ q.s = ""

\* not query: Python's truth test of a str or an int
NotQuery(q) == IF q.kind = "str" THEN q.s = "" ELSE q.n = 0

\* if not query: raise E621Error(False, "No Query Provided")
WikiCheck(t) ==
    /\ pc[t] = "wiki_check"
    /\ IF NotQuery(args[t].query)
       THEN /\ result' = [result EXCEPT ![t] = Raise("E621Error", "No Query Provided")]
            /\ pc' = [pc EXCEPT ![t] = "done"]
       ELSE /\ pc' = [pc EXCEPT ![t] = "wiki_req"]
            /\ UNCHANGED result
    /\ UNCHANGED <<now, cls_instance, heap, lock, e621, self, op, ret, limit,
                   page, args, posts, search_list, pool, gate, ticket, tickets, stamps,
                   requests, catalogue, creds>>

WikiRequest(t) ==
    /\ pc[t] = "wiki_req"
    /\ \E st \in Statuses :
          /\ requests' = Append(requests, Request(t, "wiki", 0, 0, st))
          /\ result' = [result EXCEPT ![t] =
                          IF Failed(st) THEN Raise("E621Error", "not found")
                          ELSE Return(<<>>)]
    /\ gate' = [gate EXCEPT ![t] = 0]
    /\ pc' = [pc EXCEPT ![t] = "done"]
    /\ UNCHANGED <<now, cls_instance, heap, lock, e621, self, op, ret, limit,
                   page, args, posts, search_list, pool, ticket, tickets, stamps, catalogue, creds>>

\* ------------------------------------------------------- specifications
\* The credentials thread t passes to its first ESix(username, api_key).
CredsOf(t) ==
    IF t = 1 THEN [username |-> "fox", api_key |-> "k1"]
    ELSE [username |-> "wolf", api_key |-> "k2"]

\* The state every run starts from, but for pc and the session.
Blank ==
    /\ lock = None
    /\ e621 = [t \in Threads |-> None]
    /\ op = [t \in Threads |-> "none"]
    /\ ret = [t \in Threads |-> "none"]
    /\ limit = [t \in Threads |-> 0]
    /\ page = [t \in Threads |-> 0]
    /\ args = [t \in Threads |-> NoArgs]
    /\ posts = [t \in Threads |-> <<>>]
    /\ search_list = [t \in Threads |-> <<>>]
    /\ pool = [t \in Threads |-> NoPool]
    /\ result = [t \in Threads |-> NoResult]
    /\ gate = [t \in Threads |-> 0]
    /\ ticket = [t \in Threads |-> 0]
    /\ tickets = 0
    /\ stamps = <<>>
    /\ requests = <<>>

\* Spec: the threads start before any of them has called ESix(...).  The
\* clock reads a time long after the epoch that __init stamps.
Init ==
    /\ Blank
    /\ now = MinInterval
    /\ cls_instance = None
    /\ heap = <<>>
    /\ pc = [t \in Threads |-> "start"]
    /\ self = [t \in Threads |-> None]
    /\ catalogue = {}
    /\ creds = [t \in Threads |-> CredsOf(t)]

Limiter(t) == LimLock(t) \/ LimCheck(t) \/ LimSleep(t) \/ LimStamp(t)

Construct(t) ==
    NewRead(t) \/ NewAlloc(t) \/ NewInitFields(t) \/ NewInitStamp(t) \/ NewReturn(t)

Search(t) == SearchLoop(t) \/ SearchRequest(t) \/ SearchFilter(t)

Next ==
    \/ Tick
    \/ \E t \in Threads :
          \/ Construct(t)
          \/ CallPost(t) \/ CallSearch(t) \/ CallPoolSearch(t) \/ CallWiki(t)
          \/ Limiter(t)
          \/ PostRequest(t)
          \/ Search(t)
          \/ PoolSearchRequest(t)
          \/ WikiCheck(t) \/ WikiRequest(t)

Spec == Init /\ [][Next]_vars

\* ------------------------------------------- the limiter under contention
\* SpecLimiter: as Spec, from the first constructor calls on, with post as
\* the one operation the threads call: api_limiter followed by a request.
NextLimiter ==
    \/ Tick
    \/ \E t \in Threads :
          Construct(t) \/ CallPost(t) \/ Limiter(t) \/ PostRequest(t)

SpecLimiter == Init /\ [][NextLimiter]_vars

\* ------------------------------------------------- one caller, with data
\* A session whose construction has completed: _instance is the one object,
\* initialised by __init.
Constructed ==
    /\ cls_instance = 1
    /\ creds = [t \in Threads |-> CredsOf(t)]
    /\ heap = <<[InitFields(NewObject, CredsOf(1)) EXCEPT !.has_last_search = TRUE]>>
    /\ self = [t \in Threads |-> IF t = 1 THEN 1 ELSE None]
    /\ now = MinInterval

\* While the one caller sleeps in api_limiter the clock goes on.
SleepTick == (\E t \in Threads : pc[t] = "lim_sleep") /\ Tick

\* The tag lists the posts of SpecSearch carry: none, "gore" as a general
\* tag, "gore" as a meta tag.
TagChoices == {MkTags(<<>>, <<>>), MkTags(<<"gore">>, <<>>), MkTags(<<"cat">>, <<"gore">>)}

SearchCatalogue == {MkPost(1, tg, tot, FALSE) : tg \in TagChoices, tot \in {-10, 10, 20}}

SearchInputs ==
    {SearchArgs(l, p, bl, sc) :
        l \in {160, 500}, p \in {1, 2}, bl \in {{}, {"gore"}}, sc \in {DefaultScore, 10}}

\* SpecSearch: thread 1 has just entered search (lines 262-265) with any of
\* the inputs; the service answers each page with any posts of the catalogue.
InitSearch ==
    /\ Constructed
    /\ lock = None
    /\ e621 = [t \in Threads |-> None]
    /\ ret = [t \in Threads |-> "none"]
    /\ pool = [t \in Threads |-> NoPool]
    /\ result = [t \in Threads |-> NoResult]
    /\ gate = [t \in Threads |-> 0]
    /\ ticket = [t \in Threads |-> 0]
    /\ tickets = 0
    /\ stamps = <<>>
    /\ requests = <<>>
    /\ posts = [t \in Threads |-> <<>>]
    /\ search_list = [t \in Threads |-> <<>>]
    /\ \E a \in SearchInputs :
          /\ args = [t \in Threads |-> IF t = 1 THEN a ELSE NoArgs]
          /\ limit = [t \in Threads |-> IF t = 1 THEN a.limit ELSE 0]
          /\ page = [t \in Threads |-> IF t = 1 THEN a.page ELSE 0]
    /\ op = [t \in Threads |-> IF t = 1 THEN "search" ELSE "none"]
    /\ pc = [t \in Threads |-> IF t = 1 THEN "search_loop" ELSE "done"]
    /\ catalogue = SearchCatalogue

NextSearch ==
    \/ SleepTick
    \/ \E t \in Threads : Limiter(t) \/ Search(t)

SpecSearch == InitSearch /\ [][NextSearch]_vars

\* ------------------------------------------- one caller, call after call
\* The caller's previous call has returned or raised (the caller caught the
\* exception) and it goes on to its next call.
NextCall(t) ==
    /\ pc[t] = "done"
    /\ Len(requests) < MaxRequests
    /\ pc' = [pc EXCEPT ![t] = "ready"]
    /\ UNCHANGED <<now, cls_instance, heap, lock, e621, self, op, ret, limit,
                   page, args, posts, search_list, pool, result, gate, ticket,
                   tickets, stamps, requests, catalogue, creds>>

\* The caller calls ESix(username, api_key) again, with any credentials.
Reconstruct(t) ==
    /\ pc[t] = "ready"
    /\ \E c \in Credentials : creds' = [creds EXCEPT ![t] = c]
    /\ pc' = [pc EXCEPT ![t] = "start"]
    /\ UNCHANGED <<now, cls_instance, heap, lock, e621, self, op, ret, limit,
                   page, args, posts, search_list, pool, result, gate, ticket,
                   tickets, stamps, requests, catalogue>>

\* SpecCalls: a single-threaded program.  Thread 1 constructs the session on
\* first use and then makes call after call, of any operation with any
\* argument, constructing again in between; the service answers any status.
InitCalls ==
    /\ Blank
    /\ now = MinInterval
    /\ cls_instance = None
    /\ heap = <<>>
    /\ pc = [t \in Threads |-> IF t = 1 THEN "start" ELSE "done"]
    /\ self = [t \in Threads |-> None]
    /\ catalogue = {}
    /\ creds = [t \in Threads |-> CredsOf(t)]

NextCalls ==
    \/ SleepTick
    \/ \E t \in {1} :
          \/ Construct(t) \/ Reconstruct(t)
          \/ CallPost(t) \/ CallSearch(t) \/ CallPool(t)
          \/ CallPoolSearch(t) \/ CallWiki(t)
          \/ Limiter(t)
          \/ PostRequest(t)
          \/ Search(t)
          \/ PoolRequest(t) \/ PoolScan(t)
          \/ PoolSearchRequest(t)
          \/ WikiCheck(t) \/ WikiRequest(t)
          \/ NextCall(t)

SpecCalls == InitCalls /\ [][NextCalls]_vars

\* The posts of SpecPool: every id with a total of 10, and post 1 also
\* deleted, and also with a total as low as the threshold get_pool_images
\* passes.
PoolCatalogue ==
    {MkPost(i, MkTags(<<>>, <<>>), 10, FALSE) : i \in 1..MaxId}
    \cup {MkPost(1, MkTags(<<>>, <<>>), 10, TRUE),
          MkPost(1, MkTags(<<>>, <<>>), PoolScore, FALSE)}

\* SpecPool: thread 1 is about to call pool(pool_id) on the constructed
\* session; the service reports any post_ids and any pages.
InitPool ==
    /\ Constructed
    /\ Blank
    /\ pc = [t \in Threads |-> IF t = 1 THEN "ready" ELSE "done"]
    /\ catalogue = PoolCatalogue

NextPool ==
    \/ SleepTick
    \/ \E t \in Threads :
          CallPool(t) \/ PoolRequest(t) \/ Limiter(t) \/ Search(t) \/ PoolScan(t)

SpecPool == InitPool /\ [][NextPool]_vars

\* ================================================================ claims
\* C1 (as claimed; refuted under Spec): for callers that obtain the session
\* by calling the ESix constructor, every two consecutive writes of
\* last_search are at least MinInterval apart, and the writes happen in the
\* order in which their callers acquired the limiter lock.
C1_StampsSpacedInLockOrder ==
    \A i \in 1..(Len(stamps) - 1) :
        /\ stamps[i + 1].at - stamps[i].at >= MinInterval
        /\ stamps[i].ticket < stamps[i + 1].ticket

\* C2 (as claimed; refuted under SpecPool): every outbound request of a
\* public operation is preceded by exactly one completed api_limiter call of
\* the same caller since that caller's previous request.
C2_EveryRequestGated ==
    \A i \in DOMAIN requests : requests[i].gate = 1

\* C3 (as claimed; refuted under Spec): the issue times of any two outbound
\* requests of the process differ by at least MinInterval.
C3_RequestsSpaced ==
    \A i, j \in DOMAIN requests :
        i < j => requests[j].at - requests[i].at >= MinInterval

\* C4 (as claimed; refuted under Spec): at most one ESix object is ever
\* created, and every constructor call returns that same object.
C4_SingleInstance ==
    /\ Len(heap) <= 1
    /\ \A t, u \in Threads :
          (self[t] # None /\ self[u] # None) => self[t] = self[u]

\* The requests thread t issued, in order.
RequestsOf(t) ==
    LET Mine(r) == r.t = t IN SelectSeq(requests, Mine)

\* ceil(a / b) for positive b
CeilDiv(a, b) == (a + b - 1) \div b

\* search's pagination loop has ended with every page response a success.
SearchPagesDone(t) ==
    /\ op[t] = "search"
    /\ \/ pc[t] = "search_filter"
       \/ pc[t] = "done" /\ result[t].exc # "E621Error"

\* search has returned or raised.
SearchEnded(t) == op[t] = "search" /\ pc[t] = "done"

\* C5 (as claimed; refuted under SpecSearch): for limit > 0 and starting page
\* p, search requests the pages p, p+1, ... in order, every request carries
\* the limit the caller passed, and when all responses succeed there are
\* exactly ceil(limit/320) requests.
C5_EveryPageCarriesPassedLimit ==
    \A t \in Threads :
        (op[t] = "search" /\ args[t].limit > 0) =>
            LET rq == RequestsOf(t)
            IN  /\ \A i \in DOMAIN rq :
                      /\ rq[i].page = args[t].page + i - 1
                      /\ rq[i].limit = args[t].limit
                /\ SearchPagesDone(t) =>
                      Len(rq) = CeilDiv(args[t].limit, PageSize)

\* C5 (amended): for limit > 0 and starting page p, search requests the pages
\* p, p+1, ... in order, the i-th request carries limit - 320*(i-1), the
\* budget left when it is issued, and when all responses succeed there are
\* exactly ceil(limit/320) requests.
C5_EveryPageCarriesRemainingLimit ==
    \A t \in Threads :
        (op[t] = "search" /\ args[t].limit > 0) =>
            LET rq == RequestsOf(t)
            IN  /\ \A i \in DOMAIN rq :
                      /\ rq[i].page = args[t].page + i - 1
                      /\ rq[i].limit = args[t].limit - PageSize * (i - 1)
                /\ SearchPagesDone(t) =>
                      Len(rq) = CeilDiv(args[t].limit, PageSize)

\* C5 witness: search(limit=500, page=2) is through its loop after two
\* requests, the second for page 3 with limit=180.
C5_Witness ==
    \E t \in Threads :
        /\ SearchPagesDone(t)
        /\ args[t].limit = 500 /\ args[t].page = 2
        /\ Len(RequestsOf(t)) = 2
        /\ RequestsOf(t)[2].page = 3
        /\ RequestsOf(t)[2].limit = 180

\* The posts of s with a total above the threshold, in their order in s.
AboveThreshold(s, score) ==
    LET Keep(p) == p.total > score IN SelectSeq(s, Keep)

\* C6: when none of the accumulated posts carries a blacklisted tag, search
\* returns exactly the accumulated posts whose total is strictly greater than
\* the score threshold, in arrival order, equal posts included.
C6_ScoreFilterKeepsStrictlyAbove ==
    \A t \in Threads :
        (/\ SearchEnded(t)
         /\ SearchPagesDone(t)
         /\ \A i \in DOMAIN posts[t] : ~Blacklisted(posts[t][i], args[t].blacklist))
        => result[t] = Return(AboveThreshold(posts[t], args[t].score))

\* C6 witness: with a blacklist given, three accumulated posts without the
\* blacklisted tag, the first two equal and scoring exactly the threshold,
\* the third above it: search has returned the third alone.
C6_Witness ==
    \E t \in Threads :
        /\ SearchEnded(t)
        /\ args[t].blacklist = {"gore"}
        /\ Len(posts[t]) = 3
        /\ posts[t][1] = posts[t][2]
        /\ posts[t][1].total = args[t].score
        /\ posts[t][3].total > args[t].score
        /\ \A i \in DOMAIN posts[t] : ~Blacklisted(posts[t][i], args[t].blacklist)
        /\ result[t] = Return(<<posts[t][3]>>)

\* C7 (as claimed; refuted under SpecSearch): whenever every page response
\* was a success, search returns a sequence, and that sequence holds no post
\* carrying a blacklisted tag in any category, whatever the post's score.
C7_BlacklistedExcludedAndReturned ==
    \A t \in Threads :
        (SearchEnded(t) /\ SearchPagesDone(t)) =>
            /\ result[t].kind = "return"
            /\ \A i \in DOMAIN result[t].value :
                  ~Blacklisted(result[t].value[i], args[t].blacklist)

\* C8: a page request answered with a status other than 200 is the last
\* request of its search: no request and no api_limiter call follows it, the
\* search has raised E621Error and carries none of the posts fetched before.
C8_FailedPageAbortsSearch ==
    \A i \in DOMAIN requests :
        (requests[i].op = "search" /\ requests[i].status # StatusOK) =>
            /\ i = Len(requests)
            /\ Len(stamps) = Len(requests)
            /\ lock = None
            /\ pc[requests[i].t] = "done"
            /\ result[requests[i].t].kind = "raise"
            /\ result[requests[i].t].exc = "E621Error"
            /\ result[requests[i].t].value = <<>>

\* C8 witness: the first page succeeded and brought posts, the second page
\* failed, and the search has raised.
C8_Witness ==
    /\ Len(requests) = 2
    /\ requests[1].status = StatusOK
    /\ requests[2].status # StatusOK
    /\ Len(posts[requests[2].t]) > 0
    /\ result[requests[2].t].kind = "raise"

\* pool() has returned its Pool.
PoolReturned(t) == op[t] = "pool" /\ pc[t] = "done" /\ result[t].kind = "return"

\* C9: the posts get_pool_images returns are non-deleted posts of the search
\* result whose id is in pool.post_ids; every id of post_ids with a
\* non-deleted match in the search result has a post in the output; and any
\* two output posts stand in the order of their ids in post_ids.
C9_PoolPostsFollowPostIds ==
    \A t \in Threads :
        PoolReturned(t) =>
            LET out == pool[t].posts
                ids == pool[t].post_ids
                r == search_list[t]
            IN  /\ out = result[t].value
                /\ \A k \in DOMAIN out :
                      /\ ~out[k].deleted
                      /\ out[k] \in Range(r)
                      /\ out[k].id \in Range(ids)
                /\ \A i \in DOMAIN ids :
                      (\E j \in DOMAIN r : ~r[j].deleted /\ r[j].id = ids[i])
                      => \E k \in DOMAIN out : out[k].id = ids[i]
                /\ \A k, m \in DOMAIN out :
                      k < m => \E i, j \in DOMAIN ids :
                                  /\ i <= j
                                  /\ ids[i] = out[k].id
                                  /\ ids[j] = out[m].id

\* C9 witness: post_ids = [2, 1], the search brought post 1 then post 2,
\* neither deleted, and pool.posts lists post 2 before post 1.
C9_Witness ==
    \E t \in Threads :
        /\ PoolReturned(t)
        /\ pool[t].post_ids = <<2, 1>>
        /\ Len(search_list[t]) = 2
        /\ search_list[t][1].id = 1 /\ ~search_list[t][1].deleted
        /\ search_list[t][2].id = 2 /\ ~search_list[t][2].deleted
        /\ pool[t].posts = <<search_list[t][2], search_list[t][1]>>

\* C10 (as claimed; refuted under SpecPool): get_pool_images appends at most
\* one post per entry of pool.post_ids, so its output is never longer than
\* post_ids.
C10_AtMostOnePostPerEntry ==
    \A t \in Threads :
        PoolReturned(t) => Len(pool[t].posts) <= Len(pool[t].post_ids)

\* Thread t's latest call is wiki with an empty or falsy query ("" or 0).
WikiNoQuery(t) ==
    op[t] = "wiki" /\ args[t].query \in {StrQuery(""), IntQuery(0)}

\* C11: a wiki call with query "" or 0 ends by raising E621Error with the
\* reason "No Query Provided", and no step from its start to its end issues
\* a request.
C11_NoQueryRaisesWithoutRequest ==
    /\ [](\A t \in Threads :
            (WikiNoQuery(t) /\ pc[t] = "done") =>
                result[t] = Raise("E621Error", "No Query Provided"))
    /\ [][\A t \in Threads :
            WikiNoQuery(t) => RequestsOf(t)' = RequestsOf(t)]_vars

\* C11 witness: wiki(0) has raised "No Query Provided" after an earlier call
\* of the same caller made a request, and no request was added.
C11_Witness ==
    \E t \in Threads :
        /\ WikiNoQuery(t)
        /\ args[t].query = IntQuery(0)
        /\ pc[t] = "done"
        /\ result[t] = Raise("E621Error", "No Query Provided")
        /\ Len(RequestsOf(t)) = 1
        /\ RequestsOf(t)[1].op = "post"
        /\ Len(stamps) = 2

\* The operations that make one request and decode its answer.
SingleRequestOps == {"post", "pool", "pool_search", "wiki"}

\* C12: when post, pool, pool_search or wiki gets a response with a status
\* other than 200, the step that receives it ends the call by raising
\* E621Error with the reason of the response body: the call made this one
\* request (no retry), pool() has fetched no posts, and no call of these
\* operations returns a value after a response other than 200.
C12_FailedRequestRaises ==
    /\ [][\A t \in Threads :
            (/\ op[t] \in SingleRequestOps
             /\ RequestsOf(t)' # RequestsOf(t)
             /\ RequestsOf(t)'[Len(RequestsOf(t)')].status # StatusOK)
            => /\ pc'[t] = "done"
               /\ result'[t] = Raise("E621Error", "not found")
               /\ Len(requests') = Len(requests) + 1
               /\ pool'[t] = pool[t]
               /\ posts'[t] = posts[t]]_vars
    /\ [](\A t \in Threads :
            (/\ op[t] \in SingleRequestOps
             /\ pc[t] = "done"
             /\ result[t].kind = "return")
            => /\ RequestsOf(t) # <<>>
               /\ RequestsOf(t)[Len(RequestsOf(t))].status = StatusOK)

\* C12 witness: the caller's post() succeeded, then its pool() got a status
\* other than 200 for the metadata request and has raised; no search request
\* was made.
C12_Witness ==
    \E t \in Threads :
        /\ op[t] = "pool" /\ pc[t] = "done"
        /\ result[t] = Raise("E621Error", "not found")
        /\ Len(requests) = 2
        /\ requests[1].op = "post" /\ requests[1].status = StatusOK
        /\ requests[2].op = "pool" /\ requests[2].status # StatusOK
        /\ pool[t] = NoPool

\* Thread t's call of api_limiter has ended by raising.
LimiterRaised(t) ==
    /\ pc[t] = "done"
    /\ result[t] = Raise("AttributeError", "last_search")

\* C13 (as claimed; refuted under Spec): api_limiter cannot fail, only
\* delay: no call of api_limiter ever ends by raising an error, and a caller
\* inside the limiter holds the lock or is waiting for a lock that some
\* caller inside the limiter holds (no deadlock).
C13_LimiterNeverFails ==
    /\ \A t \in Threads : ~LimiterRaised(t)
    /\ \A t \in Threads :
          pc[t] = "lim_lock" =>
              (lock = None \/ pc[lock] \in {"lim_check", "lim_sleep", "lim_stamp"})

\* Thread t is inside the with block of api_limiter: between entering the
\* interval check and having written last_search.
InLimiter(t) == pc[t] \in {"lim_check", "lim_sleep", "lim_stamp"}

\* At most one thread is inside the with block, and it holds the lock from
\* the first check through the wait loop to the stamp.
LimiterExclusive ==
    /\ \A t, u \in Threads : (InLimiter(t) /\ InLimiter(u)) => t = u
    /\ \A t \in Threads : InLimiter(t) => lock = t

\* This step is the stamp of the thread that holds the lock.
StampByLockHolder(o) ==
    /\ lock # None
    /\ pc[lock] = "lim_stamp"
    /\ self[lock] = o
    /\ pc'[lock] # "lim_stamp"
    /\ Len(stamps') = Len(stamps) + 1
    /\ stamps'[Len(stamps')].t = lock

\* C14 (as claimed; refuted under SpecLimiter): the check-then-stamp sequence
\* is exclusive and runs under the lock throughout, and every write of
\* last_search, the first assignment of an object's last_search included, is
\* made by the thread that holds the lock.
C14_EveryWriteUnderLock ==
    /\ []LimiterExclusive
    /\ [][\A o \in DOMAIN heap :
            (heap'[o].has_last_search
             /\ (~heap[o].has_last_search
                 \/ heap'[o].last_search # heap[o].last_search))
            => StampByLockHolder(o)]_vars

\* C14 (amended): the check-then-stamp sequence is exclusive and runs under
\* the lock throughout, and once an object's last_search exists every change
\* of it, and every entry of the stamp history, is made by the thread that
\* holds the lock.
C14_EveryRestampUnderLock ==
    /\ []LimiterExclusive
    /\ [][\A o \in DOMAIN heap :
            (heap[o].has_last_search
             /\ heap'[o].last_search # heap[o].last_search)
            => StampByLockHolder(o)]_vars
    /\ [][stamps' # stamps =>
            \E o \in DOMAIN heap :
                /\ StampByLockHolder(o)
                /\ heap'[o].last_search = now]_vars

\* C14 witness: two threads use the same, initialised object; one holds the
\* lock and is about to stamp while the other waits for the lock.
C14_Witness ==
    \E t, u \in Threads :
        /\ t # u
        /\ self[t] # None
        /\ self[t] = self[u]
        /\ heap[self[t]].has_last_search
        /\ pc[t] = "lim_stamp" /\ lock = t
        /\ pc[u] = "lim_lock"

\* __init has run to its end on the object.
Initialised(obj) ==
    /\ obj.username # ""
    /\ obj.header # NoHeader
    /\ obj.pool_manager
    /\ obj.has_last_search

\* C15 (as claimed; refuted under Spec): __init runs at most once per
\* process, so at most one object is ever initialised, and every object a
\* constructor call has returned to a caller, and so every object used in
\* api_limiter or for a request, has its initialisation completed.
C15_InitialisedOnceBeforeUse ==
    /\ Cardinality({o \in DOMAIN heap : heap[o].pool_manager}) <= 1
    /\ \A t \in Threads :
          (self[t] # None /\ pc[t] # "start") => Initialised(heap[self[t]])

\* C16 (as claimed; refuted under SpecPool): every non-deleted post the
\* service returned for the pool's search whose id is in pool.post_ids is in
\* the posts pool() returns, whatever its total score.
C16_NoMemberDroppedByScore ==
    \A t \in Threads :
        PoolReturned(t) =>
            \A i \in DOMAIN posts[t] :
                (~posts[t][i].deleted /\ posts[t][i].id \in Range(pool[t].post_ids))
                => posts[t][i] \in Range(pool[t].posts)

\* The order of pool()'s steps, whatever limit the pages carry: the requests
\* of the call are one metadata request, answered with success before
\* anything else is requested, then page requests for the pages 1, 2, ...,
\* at most PoolLimit / PageSize of them, each but the last answered with
\* success; pool.posts is assigned only when the call returns, and the call
\* returns only after all PoolLimit / PageSize pages succeeded, with
\* pool.posts being what get_pool_images made of the search result.
PoolStepsInOrder(t) ==
    LET rq == RequestsOf(t)
        pages == PoolLimit \div PageSize
    IN  /\ rq # <<>> => rq[1].op = "pool"
        /\ Len(rq) <= 1 + pages
        /\ \A i \in 2..Len(rq) :
              /\ rq[i - 1].status = StatusOK
              /\ rq[i].op = "search"
              /\ rq[i].page = i - 1
        /\ pool[t].posts # <<>> => PoolReturned(t)
        /\ PoolReturned(t) =>
              /\ Len(rq) = 1 + pages
              /\ rq[Len(rq)].status = StatusOK
              /\ pool[t].posts = ReconcilePosts(pool[t].post_ids, search_list[t])

\* C17 (as claimed; refuted under SpecPool): pool() issues one metadata
\* request, which completes before any page request, then exactly 4 page
\* requests for the pages 1 to 4, each carrying limit=1280, and assigns
\* pool.posts and returns only after all of them succeeded.
C17_FourPagesEachFullLimit ==
    \A t \in Threads :
        op[t] = "pool" =>
            /\ PoolStepsInOrder(t)
            /\ \A i \in 2..Len(RequestsOf(t)) :
                  RequestsOf(t)[i].limit = PoolLimit

\* C17 (amended): as above, but the page requests carry the remaining
\* budget: 1280, 960, 640 and 320 for the pages 1 to 4.
C17_FourPagesRemainingLimit ==
    \A t \in Threads :
        op[t] = "pool" =>
            /\ PoolStepsInOrder(t)
            /\ \A i \in 2..Len(RequestsOf(t)) :
                  RequestsOf(t)[i].limit = PoolLimit - PageSize * (i - 2)

\* C17 witness: pool() has returned after its five requests, the last for
\* page 4 with limit=320, with two posts in pool.posts.
C17_Witness ==
    \E t \in Threads :
        /\ PoolReturned(t)
        /\ Len(RequestsOf(t)) = 5
        /\ RequestsOf(t)[1].op = "pool"
        /\ RequestsOf(t)[5].page = 4
        /\ RequestsOf(t)[5].limit = 320
        /\ Len(pool[t].posts) = 2

\* The time of the latest stamp, or the epoch __init sets when there is none.
LastStampTime == IF stamps = <<>> THEN 0 ELSE stamps[Len(stamps)].at

\* The session as the first constructor call of thread 1 made it, with
\* last_search as the limiter left it.
FirstSession ==
    [InitFields(NewObject, CredsOf(1)) EXCEPT !.has_last_search = TRUE,
                                              !.last_search = LastStampTime]

\* C18: in a single-threaded program, once the session exists every later
\* ESix(username, api_key), whatever its arguments, returns that one object
\* and no step of the call changes the object: username, api_key, header
\* and pool_manager stay those of the first call and last_search stays
\* the time of the latest stamp.
C18_LaterConstructorChangesNothing ==
    /\ [](/\ Len(heap) <= 1
          /\ \A t \in Threads :
                pc[t] = "ready" => (self[t] = 1 /\ heap[1] = FirstSession))
    /\ [][\A t \in Threads :
            (pc[t] \in {"start", "new_ret"} /\ cls_instance # None)
            => (heap' = heap /\ cls_instance' = cls_instance)]_vars

\* C18 witness: after a stamp at a time past the epoch, the caller has
\* called ESix again with other credentials than the first time and the
\* call has returned: the session still has the first credentials and the
\* stamp.
C18_Witness ==
    \E t \in Threads :
        /\ pc[t] = "ready"
        /\ creds[t] # CredsOf(t)
        /\ self[t] = 1
        /\ heap[1].username = CredsOf(t).username
        /\ heap[1].api_key = CredsOf(t).api_key
        /\ stamps # <<>>
        /\ heap[1].last_search = LastStampTime
        /\ heap[1].last_search > 0

\* C19: a wiki call with query "" or 0 has gone through api_limiter when it
\* raises: the latest stamp is its own, made at least MinInterval after the
\* stamp before it, last_search is the time of that stamp, and the slot was
\* taken without a request; and every request of an operation that calls
\* api_limiter is issued no earlier than the latest stamp, which is at least
\* MinInterval after the stamp before it, the stamp of a rejected wiki call
\* included.
C19_RejectedWikiTakesSlot ==
    /\ [](\A t \in Threads :
            (WikiNoQuery(t) /\ pc[t] = "done") =>
                /\ result[t] = Raise("E621Error", "No Query Provided")
                /\ stamps # <<>>
                /\ stamps[Len(stamps)].t = t
                /\ stamps[Len(stamps)].ticket = ticket[t]
                /\ heap[self[t]].last_search = LastStampTime
                /\ gate[t] >= 1
                /\ \A i \in DOMAIN requests : requests[i].at <= LastStampTime
                /\ \A i \in 1..(Len(stamps) - 1) :
                      LastStampTime - stamps[i].at >= MinInterval)
    /\ [][(requests' # requests /\ requests'[Len(requests')].op # "pool")
           => /\ stamps # <<>>
              /\ requests'[Len(requests')].at >= LastStampTime
              /\ \A i \in 1..(Len(stamps) - 1) :
                    LastStampTime - stamps[i].at >= MinInterval]_vars

\* C19 witness: wiki(0) was rejected after its stamp, and the caller's next
\* call, post, waited and made the first request of the run, MinInterval
\* after the stamp of the rejected call.
C19_Witness ==
    \E t \in Threads :
        /\ op[t] = "post" /\ pc[t] = "done"
        /\ args[t].query = IntQuery(0)
        /\ Len(stamps) = 2
        /\ Len(requests) = 1
        /\ requests[1].gate = 2
        /\ requests[1].at = stamps[1].at + MinInterval

\* Thread t is inside a search call that was passed a limit of 0 or less.
InEmptySearch(t) ==
    /\ op[t] = "search"
    /\ args[t].limit <= 0
    /\ pc[t] \in {"search_loop", "search_filter"}

\* C20: no step of a search call with limit <= 0 issues a request, enters
\* api_limiter, takes the lock, writes last_search or lets time pass, and
\* the call ends by returning the empty list.
C20_NonPositiveLimitDoesNothing ==
    /\ [][\A t \in Threads :
            InEmptySearch(t) =>
                /\ requests' = requests
                /\ stamps' = stamps
                /\ tickets' = tickets
                /\ lock' = lock
                /\ heap' = heap
                /\ now' = now
                /\ pc'[t] \in {"search_loop", "search_filter", "done"}]_vars
    /\ [](\A t \in Threads :
            (op[t] = "search" /\ args[t].limit <= 0 /\ pc[t] = "done")
            => result[t] = Return(<<>>))

\* C20 witness: after a call that stamped last_search, search(limit=0) has
\* returned the empty list; there is still that one stamp and no lock
\* acquisition beyond it.
C20_Witness ==
    \E t \in Threads :
        /\ op[t] = "search" /\ pc[t] = "done"
        /\ args[t].limit = 0
        /\ result[t] = Return(<<>>)
        /\ Len(stamps) = 1
        /\ tickets = 1
        /\ heap[self[t]].last_search = LastStampTime
        /\ LastStampTime > 0

====
